---- MODULE Spec2Model ----
(***************************************************************************)
(* A model of screeps-local-visuals: src/src/render.rs (the canvas, the    *)
(* tile compositor, the grid, the cost-matrix heat map, the text labels)   *)
(* and src/src/assets_data.rs (the lazily initialised assets).             *)
(*                                                                         *)
(* An image is a record [width, height, px] with px[x][y] the RGBA pixel    *)
(* <<r, g, b, a>> at column x and row y, channels in 0..255.  Text drawn   *)
(* on an image is kept as a layer of its own (labels): one record per      *)
(* draw_text_mut call, from which the pixel boxes of its glyphs follow.    *)
(***************************************************************************)
EXTENDS Integers, Sequences, FiniteSets, TLC

(***************************************************************************)
(* Bounds of the model.                                                    *)
(***************************************************************************)
\* Largest room_max_cols / room_max_rows / scale_factor given to create_image_with_size_params.
MaxCols == 2
MaxRows == 2
MaxScale == 3
\* Width and height, in pixels, of a decoded tile asset.
NativeSize == 2
\* Largest number of draw calls on one image.
MaxOps == 2

VARIABLES
  imgbuf,    \* the OutputImage the caller owns
  size,      \* [cols, rows, scale]: what the image was created with
  call,      \* the last call made on the image (history)
  lastTile,  \* per cell, the tile of the last draw_*_tile call on it, or "none" (history)
  pure,      \* TRUE while every call since creation drew a fully opaque tile (history)
  nops,      \* number of draw calls since creation
  labels,    \* the text layer: the draw_text_mut calls made on the image, in order
  overlay,   \* the alpha_overlay image the last draw_cost_matrix built
  once,      \* per asset, the state of its lazy_static cell
  cached,    \* per asset, the value stored in its lazy_static cell
  decodes,   \* per asset, how many times its initialiser has been started
  pc,        \* per thread, where it is in the dereference of an asset
  got        \* per thread, the value its last dereference returned

vars == <<imgbuf, size, call, lastTile, pure, nops, labels, overlay,
          once, cached, decodes, pc, got>>

canvasVars == <<imgbuf, size, call, lastTile, pure, nops>>
assetVars == <<once, cached, decodes, pc, got>>

(***************************************************************************)
(* Pixels and images.                                                      *)
(***************************************************************************)
Black == <<0, 0, 0, 255>>
Zero == <<0, 0, 0, 0>>

\* The coordinates <<x, y>> of the pixels of a w x h image, and the pixel at one.
Pixels(w, h) == (0 .. w - 1) \X (0 .. h - 1)
PixelsOf(img) == Pixels(img.width, img.height)
At(img, p) == img.px[p[1]][p[2]]

\* image::ImageBuffer::new(w, h): every channel of every pixel is 0.
ImageBuffer_new(w, h) ==
  [width |-> w, height |-> h, px |-> [x \in 0 .. w - 1 |-> [y \in 0 .. h - 1 |-> Zero]]]

\* render.rs:205-216.  The u32 products are not reduced modulo 2^32: the
\* bounds keep them far below it.
create_image_with_size_params_nogridline(room_max_cols, room_max_rows, scale_factor) ==
  LET w == room_max_cols * scale_factor
      h == room_max_rows * scale_factor
  IN  [width |-> w, height |-> h, px |-> [x \in 0 .. w - 1 |-> [y \in 0 .. h - 1 |-> Black]]]

create_image_with_size_params(room_max_cols, room_max_rows, scale_factor) ==
  LET new == ImageBuffer_new((room_max_cols * scale_factor) + 1,
                             (room_max_rows * scale_factor) + 1)
  IN  [new EXCEPT !.px = [x \in DOMAIN new.px |->
                            [y \in DOMAIN new.px[x] |-> <<0, 0, 0, 255>>]]]

(***************************************************************************)
(* The decoded tile assets.  The PNG files are not part of the sources:    *)
(* each asset is a NativeSize x NativeSize image whose pixels differ from  *)
(* tile to tile and from position to position.  The terrain tiles are      *)
(* fully opaque; the resource tiles have transparent and half transparent  *)
(* pixels.                                                                 *)
(***************************************************************************)
TerrainTiles == {"Plain", "Swamp", "Wall"}
ResourceTiles == {"Source", "Unknown"}
Tiles == TerrainTiles \cup ResourceTiles

AssetPixel(tile, p) ==
  CASE tile = "Plain"   -> <<40 + 10 * p[1], 60 + 10 * p[2], 20, 255>>
    [] tile = "Swamp"   -> <<30 + 10 * p[1], 90 + 10 * p[2], 10, 255>>
    [] tile = "Wall"    -> <<10 + 10 * p[1], 10 + 10 * p[2], 10, 255>>
    [] tile = "Source"  -> <<250, 200 + 10 * p[1], 50 + 10 * p[2],
                             IF (p[1] + p[2]) % 2 = 0 THEN 255 ELSE 0>>
    [] tile = "Unknown" -> <<200, 100 + 10 * p[1], 200 + 10 * p[2],
                             IF (p[1] + p[2]) % 2 = 0 THEN 128 ELSE 64>>

\* assets_data.rs:45-57: the value of the static, an image of the asset's size.
Asset(tile) ==
  [width |-> NativeSize, height |-> NativeSize,
   px |-> [x \in 0 .. NativeSize - 1 |-> [y \in 0 .. NativeSize - 1 |->
             AssetPixel(tile, <<x, y>>)]]]

IsOpaque(img) == \A p \in PixelsOf(img) : At(img, p)[4] = 255

(***************************************************************************)
(* image::imageops of the image crate, as render.rs uses them.             *)
(***************************************************************************)
\* Nearest-neighbour sampling: output coordinate o of dst takes the source
\* coordinate under the centre of the output pixel, floor((o + 1/2) * src / dst).
NearestIdx(o, src, dst) == ((2 * o + 1) * src) \div (2 * dst)

\* image::imageops::resize(img, w, h, FilterType::Nearest)
resize(img, nwidth, nheight) ==
  [width |-> nwidth, height |-> nheight,
   px |-> [x \in 0 .. nwidth - 1 |-> [y \in 0 .. nheight - 1 |->
             img.px[NearestIdx(x, img.width, nwidth)][NearestIdx(y, img.height, nheight)]]]]

\* A mutant of Blend: the destination wins once it has been painted.
Blend_keep_painted(bg, fg) ==
  IF bg # Black THEN bg ELSE fg

\* Rgba<u8>::blend (straight alpha over): a transparent source leaves the
\* destination, an opaque source replaces it, otherwise
\*   out_a  = bg_a + fg_a - bg_a * fg_a
\*   out_c  = (fg_c * fg_a + bg_c * bg_a * (1 - fg_a)) / out_a
\* with the channels scaled to [0, 1], the results scaled back and truncated.
\* Here the quotients are exact rationals; the crate computes them in f32.
Blend(bg, fg) ==
  IF fg[4] = 0 THEN bg
  ELSE IF fg[4] = 255 THEN fg
  ELSE LET af == bg[4] * 255 + fg[4] * 255 - bg[4] * fg[4]   \* out_a * 255^2
           ch(c) == (fg[c] * fg[4] * 255 + bg[c] * bg[4] * (255 - fg[4])) \div af
       IN  IF af = 0 THEN bg
           ELSE <<ch(1), ch(2), ch(3), af \div 255>>

\* image::imageops::overlay(bottom, top, x, y): every pixel of top that falls
\* on bottom is blended onto it; the rest of top is cropped.
imageops_overlay(bottom, top, x, y) ==
  [bottom EXCEPT !.px =
     [bx \in DOMAIN bottom.px |-> [by \in DOMAIN bottom.px[bx] |->
        IF /\ bx - x \in 0 .. top.width - 1
           /\ by - y \in 0 .. top.height - 1
        THEN Blend(bottom.px[bx][by], top.px[bx - x][by - y])
        ELSE bottom.px[bx][by]]]]

(***************************************************************************)
(* The tile compositor, render.rs:390-475.                                 *)
(***************************************************************************)
\* A mutant of SizedTile: the tile is composited at its native size.
SizedTile_native(tile_img, scale_factor) == tile_img

\* The tile as draw_tile_img_xy composites it: resized only when needed.
SizedTile(tile_img, scale_factor) ==
  IF (scale_factor # tile_img.width) \/ (scale_factor # tile_img.height)
  THEN resize(tile_img, scale_factor, scale_factor)
  ELSE tile_img

\* A mutant of draw_tile_img_xy: the one-pixel inset of the cell is left out.
draw_tile_img_xy_noinset(img, col, row, tile_img, scale_factor) ==
  imageops_overlay(img, SizedTile(tile_img, scale_factor),
                   col * scale_factor, row * scale_factor)

draw_tile_img_xy(img, col, row, tile_img, scale_factor) ==
  LET x == col * scale_factor + 1
      y == row * scale_factor + 1
  IN  imageops_overlay(img, SizedTile(tile_img, scale_factor), x, y)

\* A mutant of draw_grid_with_scale_factor: the grid colour is blended onto
\* the pixel instead of replacing it.
draw_grid_with_scale_factor_blend(img, scale_factor) ==
  [img EXCEPT !.px =
     [x \in DOMAIN img.px |-> [y \in DOMAIN img.px[x] |->
        IF (x % scale_factor = 0) \/ (y % scale_factor = 0)
        THEN Blend(img.px[x][y], <<255, 255, 255, 128>>)
        ELSE img.px[x][y]]]]

\* render.rs:224-233
draw_grid_with_scale_factor(img, scale_factor) ==
  [img EXCEPT !.px =
     [x \in DOMAIN img.px |-> [y \in DOMAIN img.px[x] |->
        IF (x % scale_factor = 0) \/ (y % scale_factor = 0)
        THEN <<255, 255, 255, 128>>
        ELSE img.px[x][y]]]]

(***************************************************************************)
(* f32 arithmetic, as far as get_cost_matrix_alpha_overlay and lerp use    *)
(* it.  A finite value v >= 0 is the pair <<m, e>> with v = m * 2^e and    *)
(* either m = 0 or 2^23 <= m < 2^24 (a 24-bit significand); every operation *)
(* rounds to nearest, ties to even, as IEEE 754 does.  NaN is "NaN".  No   *)
(* intermediate exceeds 2^25, so that TLC's integers hold it.              *)
(***************************************************************************)
NaN == "NaN"
FZero == <<0, 0>>
IsNaN(f) == f = NaN

\* A significand 0 < m < 2^24 shifted left until it has 24 bits.
RECURSIVE FNorm(_, _)
FNorm(m, e) == IF m >= 2 ^ 23 THEN <<m, e>> ELSE FNorm(2 * m, e - 1)

\* (x as f32) for an integer 0 <= x < 2^24: exact.
FromInt(x) == IF x = 0 THEN FZero ELSE FNorm(x, 0)

\* A quotient q with remainder rem of a division by d, rounded to nearest even.
RoundEven(q, rem, d) ==
  IF 2 * rem > d \/ (2 * rem = d /\ q % 2 = 1) THEN q + 1 ELSE q

\* A rounded significand may have reached 2^24.
FCarry(m, e) == IF m = 2 ^ 24 THEN <<2 ^ 23, e + 1>> ELSE <<m, e>>

\* Binary long division: q + rem/d is the quotient so far, scaled by 2^(-e).
RECURSIVE FDivBits(_, _, _, _)
FDivBits(q, rem, d, e) ==
  IF q >= 2 ^ 23
  THEN FCarry(RoundEven(q, rem, d), e)
  ELSE IF 2 * rem >= d
       THEN FDivBits(2 * q + 1, 2 * rem - d, d, e - 1)
       ELSE FDivBits(2 * q, 2 * rem, d, e - 1)

\* (n as f32) / (d as f32) for integers 0 <= n, d <= 255; 0.0 / 0.0 is NaN.
\* (n / 0.0 with n > 0 is +inf; get_cost_matrix_alpha_overlay never forms it.)
FDiv(n, d) ==
  IF d = 0 /\ n = 0 THEN NaN
  ELSE IF n = 0 THEN FZero
  ELSE FDivBits(n \div d, n % d, d, 0)

\* f * (k as f32) for a float 0 <= f and an integer 0 <= k <= 255.
\* With m = mh * 2^8 + ml the exact product is P = hi * 2^8 + lo below.
FMulInt(f, k) ==
  IF IsNaN(f) THEN NaN
  ELSE IF f[1] = 0 \/ k = 0 THEN FZero
  ELSE LET m  == f[1]
           A  == (m \div 256) * k
           B  == (m % 256) * k
           hi == A + (B \div 256)
           lo == B % 256
       IN  IF hi < 2 ^ 16
           THEN FNorm(hi * 256 + lo, f[2])
           ELSE LET s == CHOOSE j \in 1 .. 8 : 2 ^ (15 + j) <= hi /\ hi < 2 ^ (16 + j)
                    q == hi * 2 ^ (8 - s) + (lo \div 2 ^ s)
                IN  FCarry(RoundEven(q, lo % 2 ^ s, 2 ^ s), f[2] + s)

\* 1.0 - f for a float 0 <= f <= 1.
FOneMinus(f) ==
  IF IsNaN(f) THEN NaN
  ELSE IF f[1] = 0 THEN <<2 ^ 23, -23>>
  ELSE IF f[2] >= -24
       THEN \* f >= 1/2: the difference is exact
            LET d == 2 ^ (-f[2]) - f[1]
            IN  IF d = 0 THEN FZero ELSE FNorm(d, f[2])
       ELSE \* f < 1/2: the difference lies in (1/2, 1) and has exponent -24
            LET j == -f[2] - 24
            IN  IF j > 24
                THEN <<2 ^ 23, -23>>
                ELSE FCarry(2 ^ 24 - RoundEven(f[1] \div 2 ^ j, f[1] % 2 ^ j, 2 ^ j), -24)

\* x + y where one of the two is 0.0 (the only sums lerp forms here).
FAdd(x, y) ==
  IF IsNaN(x) \/ IsNaN(y) THEN NaN
  ELSE CASE x[1] = 0 -> y
         [] y[1] = 0 -> x

\* (f as u8): truncation towards zero, NaN becomes 0, values above 255 saturate.
AsU8(f) ==
  IF IsNaN(f) THEN 0
  ELSE IF f[1] = 0 \/ f[2] < -24 THEN 0
  ELSE IF f[2] > -16 THEN 255
  ELSE LET v == f[1] \div 2 ^ (-f[2]) IN IF v > 255 THEN 255 ELSE v

\* render.rs:517-519, for integer-valued v0 and v1 in 0..255 and 0 <= t <= 1 or NaN:
\* (1.0 - t) * v0 + t * v1
lerp(v0, v1, t) == FAdd(FMulInt(FOneMinus(t), v0), FMulInt(t, v1))

(***************************************************************************)
(* Text.  The glyph layout is rusttype's and the metrics are the font's    *)
(* (assets/fonts/FreeMono.ttf, not part of the sources): a monospaced      *)
(* font, every glyph advancing the pen by FontAdvance font units, a digit  *)
(* covering the font units GlyphLeft .. GlyphRight(d) of its advance and   *)
(* rising FontAscent units above the baseline.  A font scale s maps        *)
(* FontUnits font units to s pixels; s is the rational <<num, den>>.  The  *)
(* outline of a glyph is not modelled, only the pixel box it is drawn in.  *)
(***************************************************************************)
FontUnits == 1000
FontAdvance == 600
FontAscent == 800
GlyphLeft == 100
GlyphRight(d) == 500 - 10 * (d % 3)

CeilDiv(a, b) == (a + b - 1) \div b

\* u8::to_string / the decimal digits of a number, most significant first.
RECURSIVE to_string(_)
to_string(v) == IF v < 10 THEN <<v>> ELSE Append(to_string(v \div 10), v % 10)

\* Pixel columns [x0, x1) and rows [y0, y1) glyph i (from 1) of a text covers
\* when the text is drawn at (0, 0): rusttype's pixel_bounding_box, floor of
\* the scaled left edge and ceiling of the scaled right edge.
GlyphBox(text, scale, i) ==
  LET pen == (i - 1) * FontAdvance
  IN  [x0 |-> ((pen + GlyphLeft) * scale[1]) \div (FontUnits * scale[2]),
       x1 |-> CeilDiv((pen + GlyphRight(text[i])) * scale[1], FontUnits * scale[2]),
       y0 |-> 0,
       y1 |-> CeilDiv(FontAscent * scale[1], FontUnits * scale[2])]

Max(S) == CHOOSE m \in S : \A n \in S : n <= m

\* imageproc::drawing::text_size(scale, font, text): the largest right and
\* bottom edge of the glyphs' pixel boxes, (0, 0) for a text without glyphs.
text_size(scale, text) ==
  IF Len(text) = 0 THEN <<0, 0>>
  ELSE <<Max({GlyphBox(text, scale, i).x1 : i \in 1 .. Len(text)}),
         Max({GlyphBox(text, scale, i).y1 : i \in 1 .. Len(text)})>>

\* imageproc::drawing::draw_text_mut(imgbuf, white, x, y, scale, font, text):
\* the call, kept in the text layer.
draw_text_mut(lbls, x, y, scale, text) ==
  Append(lbls, [x |-> x, y |-> y, scale |-> scale, text |-> text])

\* The pixel boxes of the glyphs of a label: what the label may paint.
InkBoxes(l) ==
  {[x0 |-> l.x + GlyphBox(l.text, l.scale, i).x0, x1 |-> l.x + GlyphBox(l.text, l.scale, i).x1,
    y0 |-> l.y + GlyphBox(l.text, l.scale, i).y0, y1 |-> l.y + GlyphBox(l.text, l.scale, i).y1]
   : i \in 1 .. Len(l.text)}

\* A glyph of the label has pixels in columns xlo..xhi and rows ylo..yhi.
InkTouches(l, xlo, xhi, ylo, yhi) ==
  \E b \in InkBoxes(l) :
    /\ b.x0 < b.x1 /\ b.y0 < b.y1
    /\ b.x0 <= xhi /\ xlo <= b.x1 - 1
    /\ b.y0 <= yhi /\ ylo <= b.y1 - 1

\* render.rs:281-293 (draw_text_number_raw inlined)
draw_text_number_xy_with_scale_factor(lbls, col, row, text, scale_factor, text_scale_factor) ==
  LET x == col * scale_factor + 2
      y == row * scale_factor + 2
  IN  draw_text_mut(lbls, x, y, <<text_scale_factor, 1>>, text)

\* A mutant of calculate_centered_text_scale: the scale is never reduced.
calculate_centered_text_scale_default(area, text) ==
  [scale |-> <<area, 1>>, width |-> text_size(<<area, 1>>, text)[1],
   height |-> text_size(<<area, 1>>, text)[2]]

\* render.rs:243-255.  The new scale area * (area / x) is kept as the
\* rational <<area * area, x>>.
calculate_centered_text_scale(area, text) ==
  LET default_scale == <<area, 1>>
      x == text_size(default_scale, text)[1]
      y == text_size(default_scale, text)[2]
  IN  IF x > area
      THEN LET new_scale == <<area * area, x>>
           IN  [scale |-> new_scale, width |-> text_size(new_scale, text)[1],
                height |-> text_size(new_scale, text)[2]]
      ELSE [scale |-> default_scale, width |-> x, height |-> y]

\* render.rs:28
DEFAULT_SCALE_FACTOR == 50

\* render.rs:260-273
draw_centered_text_number_xy(lbls, col, row, text) ==
  LET cell_size == DEFAULT_SCALE_FACTOR
      border_size == 2
      text_area == cell_size - 2 * border_size
      fit == calculate_centered_text_scale(text_area, text)
      x_offset == (cell_size - fit.width) \div 2
      y_offset == (cell_size - fit.height) \div 2
      x == col * cell_size + border_size + x_offset
      y == row * cell_size + border_size + y_offset
  IN  draw_text_mut(lbls, x, y, fit.scale, text)

(***************************************************************************)
(* The cost-matrix heat map, render.rs:295-388.  cm is a function from the *)
(* positions of the room to u8 values.  v_min <= v_max throughout: with    *)
(* v_min > v_max the u8 subtraction v_max - v_min overflows.               *)
(***************************************************************************)
\* render.rs:338-354: the `continue` arms.
SkippedByOverlay(value, v_min, v_max, skip_out_of_bounds_values) ==
  IF value > v_max THEN skip_out_of_bounds_values
  ELSE IF value < v_min THEN skip_out_of_bounds_values
  ELSE FALSE

\* A mutant of clamped_value: a value above the range is clamped to v_min.
clamped_value_low(value, v_min, v_max) ==
  IF value > v_max THEN v_min
  ELSE IF value < v_min THEN v_min
  ELSE value

\* render.rs:338-354: the value of clamped_value.
clamped_value(value, v_min, v_max) ==
  IF value > v_max THEN v_max
  ELSE IF value < v_min THEN v_min
  ELSE value

\* A mutant of blue_channel: the interpolation runs the other way.
blue_channel_inverted(value, v_min, v_max, b_max) ==
  AsU8(lerp(0, b_max, FDiv(clamped_value(value, v_min, v_max) - v_min, v_max - v_min)))

\* render.rs:356-358
blue_channel(value, v_min, v_max, b_max) ==
  LET range == v_max - v_min
  IN  b_max - AsU8(lerp(0, b_max, FDiv(clamped_value(value, v_min, v_max) - v_min, range)))

\* A mutant of overlay_alpha: a cell of value 0 is not made transparent.
overlay_alpha_nozero(value, a) == a

\* render.rs:362-367
overlay_alpha(value, a) == IF value = 0 THEN 0 ELSE a

\* render.rs:356-369: the pixel painted on the block of a cell.
cell_rgba(value, v_min, v_max, b_max, a) ==
  LET b == blue_channel(value, v_min, v_max, b_max)
      others == AsU8(lerp(b_max, 0, FDiv(b, b_max)))
  IN  <<others, others, b, overlay_alpha(value, a)>>

\* render.rs:334-388.  The blocks of distinct positions are disjoint, so the
\* order of the loop does not show; the image is at least as large as the room.
get_cost_matrix_alpha_overlay(cm, overlay_width, overlay_height, scale_factor, v_min, v_max, b_max, a, skip_out_of_bounds_values) ==
  LET painted == {<<c, cell_rgba(cm[c], v_min, v_max, b_max, a)>> :
                    c \in {d \in DOMAIN cm :
                             ~SkippedByOverlay(cm[d], v_min, v_max, skip_out_of_bounds_values)}}
      new == ImageBuffer_new(overlay_width, overlay_height)
  IN  [new EXCEPT !.px =
         [x \in DOMAIN new.px |-> [y \in DOMAIN new.px[x] |->
            LET c == <<(x - 1) \div scale_factor, (y - 1) \div scale_factor>>
            IN  IF x >= 1 /\ y >= 1 /\ \E e \in painted : e[1] = c
                THEN (CHOOSE e \in painted : e[1] = c)[2]
                ELSE new.px[x][y]]]]

\* A mutant of SkippedByLabels: only the upper bound is tested.
SkippedByLabels_upper_only(value, v_min, v_max, skip_out_of_bounds_values) ==
  \/ value = 0
  \/ skip_out_of_bounds_values /\ value > v_max

\* render.rs:304-316: the `continue` arms of the label loop.
SkippedByLabels(value, v_min, v_max, skip_out_of_bounds_values) ==
  \/ value = 0
  \/ skip_out_of_bounds_values /\ (value > v_max \/ value < v_min)

\* render.rs:321
label_text(value, v_min, v_max) == to_string(value)

\* render.rs:323-328: ((scale_factor as f32) * 0.75) as u32 is floor(3 * scale_factor / 4).
text_scale_factor(value, scale_factor) ==
  IF value > 9 THEN (scale_factor * 3) \div 4 ELSE scale_factor

\* LocalCostMatrix::iter: the positions in the order of their linear index.
RECURSIVE PositionsInOrder(_)
PositionsInOrder(S) ==
  IF S = {} THEN <<>>
  ELSE LET first == CHOOSE c \in S :
                      \A d \in S : c[1] < d[1] \/ (c[1] = d[1] /\ c[2] <= d[2])
       IN  <<first>> \o PositionsInOrder(S \ {first})

\* render.rs:303-331: the label loop over the positions still to visit.
RECURSIVE draw_cost_labels(_, _, _, _, _, _, _)
draw_cost_labels(lbls, todo, cm, v_min, v_max, scale_factor, skip_out_of_bounds_values) ==
  IF todo = <<>> THEN lbls
  ELSE LET position == Head(todo)
           value == cm[position]
           drawn ==
             IF SkippedByLabels(value, v_min, v_max, skip_out_of_bounds_values)
             THEN lbls
             ELSE draw_text_number_xy_with_scale_factor(
                    lbls, position[1], position[2], label_text(value, v_min, v_max),
                    scale_factor, text_scale_factor(value, scale_factor))
       IN  draw_cost_labels(drawn, Tail(todo), cm, v_min, v_max, scale_factor,
                            skip_out_of_bounds_values)

(***************************************************************************)
(* Cells of an image and their blocks of pixels.                           *)
(***************************************************************************)
Cells(s) == (0 .. s.cols - 1) \X (0 .. s.rows - 1)

\* The scale x scale block of a cell: top-left corner (col*scale+1, row*scale+1).
Block(c, scale) ==
  (c[1] * scale + 1 .. c[1] * scale + scale) \X (c[2] * scale + 1 .. c[2] * scale + scale)

NoTiles == [c \in (0 .. MaxCols - 1) \X (0 .. MaxRows - 1) |-> "none"]

(***************************************************************************)
(* State of the parts of the program a specification does not exercise.    *)
(***************************************************************************)
AssetKeys == {"FREE_MONO_FONT", "TERRAIN_PLAIN_IMG", "RESOURCE_SOURCE_IMG"}
Threads == {1, 2, 3}

\* The cell of an asset before its initialiser has stored anything: None.
Uninit == [asset |-> "none", complete |-> FALSE]

AssetsUntouched ==
  /\ once = [k \in AssetKeys |-> "incomplete"]
  /\ cached = [k \in AssetKeys |-> Uninit]
  /\ decodes = [k \in AssetKeys |-> 0]
  /\ pc = [t \in Threads |-> [at |-> "idle", key |-> "none"]]
  /\ got = [t \in Threads |-> [key |-> "none", value |-> Uninit]]

NoCostMatrix ==
  /\ labels = <<>>
  /\ overlay = ImageBuffer_new(0, 0)

(***************************************************************************)
(* The canvas: creation, tiles and the grid.                               *)
(***************************************************************************)
Created(cols, rows, scale) ==
  /\ imgbuf = create_image_with_size_params(cols, rows, scale)
  /\ size = [cols |-> cols, rows |-> rows, scale |-> scale]
  /\ call = [op |-> "create"]
  /\ lastTile = NoTiles
  /\ pure = TRUE
  /\ nops = 0

Init ==
  /\ \E cols \in 1 .. MaxCols, rows \in 1 .. MaxRows, scale \in 1 .. MaxScale :
       Created(cols, rows, scale)
  /\ NoCostMatrix
  /\ AssetsUntouched

DrawTile(c, tile) ==
  /\ imgbuf' = draw_tile_img_xy(imgbuf, c[1], c[2], Asset(tile), size.scale)
  /\ call' = [op |-> "tile", cell |-> c, tile |-> tile]
  /\ lastTile' = [lastTile EXCEPT ![c] = tile]
  /\ pure' = (pure /\ IsOpaque(Asset(tile)))
  /\ nops' = nops + 1
  /\ UNCHANGED <<size, labels, overlay>>
  /\ UNCHANGED assetVars

\* render.rs:396-404, called with the scale the image was created with.
DrawTerrainTile ==
  /\ nops < MaxOps
  /\ \E c \in Cells(size), tile \in TerrainTiles : DrawTile(c, tile)

\* render.rs:412-426, called with the scale the image was created with.
DrawResourceTile ==
  /\ nops < MaxOps
  /\ \E c \in Cells(size), tile \in ResourceTiles : DrawTile(c, tile)

\* render.rs:224-233, called with the scale the image was created with.
DrawGrid ==
  /\ nops < MaxOps
  /\ imgbuf' = draw_grid_with_scale_factor(imgbuf, size.scale)
  /\ call' = [op |-> "grid"]
  /\ pure' = FALSE
  /\ nops' = nops + 1
  /\ UNCHANGED <<size, lastTile, labels, overlay>>
  /\ UNCHANGED assetVars

Next ==
  \/ DrawTerrainTile
  \/ DrawResourceTile
  \/ DrawGrid

Spec == Init /\ [][Next]_vars

(***************************************************************************)
(* The cost matrix drawn on an image of the default scale.  The room is a  *)
(* strip of RoomCols positions of the 50 x 50 room; the image is created   *)
(* for it and, as a map renderer does, may have had the terrain drawn on   *)
(* every cell before the cost matrix is drawn.                             *)
(***************************************************************************)
\* Number of positions of the room strip.
RoomCols == 2

RoomPositions == (0 .. RoomCols - 1) \X {0}

CostValues == {0, 1, 5, 15, 150}
\* <<v_min, v_max>>
CostRanges == {<<0, 10>>, <<2, 200>>, <<5, 5>>, <<0, 0>>}
BMaxValues == {255}
AlphaValues == {128}

RECURSIVE DrawTerrainOn(_, _, _, _)
DrawTerrainOn(img, todo, tile, scale_factor) ==
  IF todo = <<>> THEN img
  ELSE DrawTerrainOn(draw_tile_img_xy(img, Head(todo)[1], Head(todo)[2], Asset(tile), scale_factor),
                     Tail(todo), tile, scale_factor)

InitCost ==
  /\ size = [cols |-> RoomCols, rows |-> 1, scale |-> DEFAULT_SCALE_FACTOR]
  /\ \E terrain \in {"none", "Plain"} :
       /\ imgbuf = LET new == create_image_with_size_params(RoomCols, 1, DEFAULT_SCALE_FACTOR)
                   IN  IF terrain = "none" THEN new
                       ELSE DrawTerrainOn(new, PositionsInOrder(RoomPositions), terrain,
                                          DEFAULT_SCALE_FACTOR)
       /\ lastTile = [c \in DOMAIN NoTiles |-> IF c \in RoomPositions THEN terrain ELSE "none"]
       /\ call = IF terrain = "none" THEN [op |-> "create"]
                 ELSE [op |-> "tile", cell |-> <<RoomCols - 1, 0>>, tile |-> terrain]
       /\ nops = IF terrain = "none" THEN 0 ELSE RoomCols
  /\ pure = TRUE
  /\ NoCostMatrix
  /\ AssetsUntouched

\* render.rs:295-332: draw_cost_matrix, which fixes the scale to the default.
draw_cost_matrix_with_scale_factor(cm, v_min, v_max, b_max, a, scale_factor, skip_out_of_bounds_values) ==
  LET alpha_overlay ==
        get_cost_matrix_alpha_overlay(cm, imgbuf.width, imgbuf.height, scale_factor,
                                      v_min, v_max, b_max, a, skip_out_of_bounds_values)
  IN  /\ overlay' = alpha_overlay
      /\ imgbuf' = imageops_overlay(imgbuf, overlay', 0, 0)
      /\ labels' = draw_cost_labels(labels, PositionsInOrder(DOMAIN cm), cm, v_min, v_max,
                                    scale_factor, skip_out_of_bounds_values)

DrawCostMatrix ==
  /\ call.op # "cost"
  /\ \E cm \in [RoomPositions -> CostValues], r \in CostRanges,
        b_max \in BMaxValues, a \in AlphaValues, skip \in BOOLEAN :
       /\ draw_cost_matrix_with_scale_factor(cm, r[1], r[2], b_max, a,
                                             DEFAULT_SCALE_FACTOR, skip)
       /\ call' = [op |-> "cost", cm |-> cm, v_min |-> r[1], v_max |-> r[2],
                   b_max |-> b_max, a |-> a, skip |-> skip]
  /\ pure' = FALSE
  /\ nops' = nops + 1
  /\ UNCHANGED <<size, lastTile>>
  /\ UNCHANGED assetVars

NextCost == DrawCostMatrix

SpecCost == InitCost /\ [][NextCost]_vars

(***************************************************************************)
(* Centred labels: draw_centered_text_number_xy on the image of a room     *)
(* strip, with texts of digits of every length up to MaxTextLen.           *)
(***************************************************************************)
\* Largest number of characters of a label.
MaxTextLen == 6

\* One digit for each glyph width of the font model.
TextDigits == {0, 1, 8}

Texts == UNION {[1 .. n -> TextDigits] : n \in 0 .. MaxTextLen}

InitText ==
  /\ Created(RoomCols, 1, DEFAULT_SCALE_FACTOR)
  /\ NoCostMatrix
  /\ AssetsUntouched

DrawCenteredText ==
  /\ call.op # "centered"
  /\ \E c \in RoomPositions, text \in Texts :
       /\ labels' = draw_centered_text_number_xy(labels, c[1], c[2], text)
       /\ call' = [op |-> "centered", cell |-> c, text |-> text]
  /\ pure' = FALSE
  /\ nops' = nops + 1
  /\ UNCHANGED <<imgbuf, size, lastTile, overlay>>
  /\ UNCHANGED assetVars

NextText == DrawCenteredText

SpecText == InitText /\ [][NextText]_vars

(***************************************************************************)
(* Two draw_tile calls in a row on distinct cells of a canvas that is      *)
(* fresh or has been drawn on before: a resource tile on every cell and    *)
(* the grid.                                                               *)
(***************************************************************************)
Backgrounds == {"fresh", "tiles and grid"}

Background(bg, cols, rows, scale) ==
  LET new == create_image_with_size_params(cols, rows, scale)
      cells == PositionsInOrder((0 .. cols - 1) \X (0 .. rows - 1))
      tiled == DrawTerrainOn(new, cells, "Source", scale)
  IN  IF bg = "fresh" THEN new ELSE draw_grid_with_scale_factor(tiled, scale)

InitPair ==
  /\ \E cols \in 1 .. MaxCols, rows \in 1 .. MaxRows, scale \in 1 .. MaxScale, bg \in Backgrounds :
       /\ imgbuf = Background(bg, cols, rows, scale)
       /\ size = [cols |-> cols, rows |-> rows, scale |-> scale]
       /\ call = [op |-> "background", bg |-> bg]
       /\ lastTile = [c \in DOMAIN NoTiles |->
                        IF bg # "fresh" /\ c[1] < cols /\ c[2] < rows
                        THEN "Source" ELSE "none"]
       /\ pure = (bg = "fresh")
       /\ nops = IF bg = "fresh" THEN 0 ELSE cols * rows + 1
  /\ NoCostMatrix
  /\ AssetsUntouched

\* draw_tile on the cell c and then draw_tile on the cell d.
DrawTilePair ==
  /\ call.op # "pair"
  /\ \E c \in Cells(size), d \in Cells(size), t \in Tiles, u \in Tiles :
       /\ c # d
       /\ imgbuf' = draw_tile_img_xy(
                      draw_tile_img_xy(imgbuf, c[1], c[2], Asset(t), size.scale),
                      d[1], d[2], Asset(u), size.scale)
       /\ call' = [op |-> "pair", first |-> [cell |-> c, tile |-> t],
                   second |-> [cell |-> d, tile |-> u], bg |-> call.bg]
       /\ lastTile' = [lastTile EXCEPT ![c] = t, ![d] = u]
       /\ pure' = (pure /\ IsOpaque(Asset(t)) /\ IsOpaque(Asset(u)))
  /\ nops' = nops + 2
  /\ UNCHANGED <<size, labels, overlay>>
  /\ UNCHANGED assetVars

NextPair == DrawTilePair

SpecPair == InitPair /\ [][NextPair]_vars

(***************************************************************************)
(* The lazily initialised assets (assets_data.rs:40-77).  Each static of   *)
(* the lazy_static! block is a cell holding Option<T> and a                *)
(* std::sync::Once; a dereference runs Once::call_once with the            *)
(* initialiser and then reads the cell.  Threads dereference assets in any *)
(* interleaving.                                                           *)
(***************************************************************************)
\* assets_data.rs:17-28, 41-43: the value an initialiser produces.
Decoded(k) == [asset |-> k, complete |-> TRUE]

\* The cell while the initialiser's result is being moved into it.
Partial(k) == [asset |-> k, complete |-> FALSE]

\* A mutant of MayInitialise: a thread also starts the initialiser while
\* another thread is running it.
MayInitialise_unguarded(state) == state # "complete"

\* Once::call_once: the thread that finds the Once incomplete runs the initialiser.
MayInitialise(state) == state = "incomplete"

\* The threads that dereference the assets do not draw.
CanvasUntouched == UNCHANGED <<imgbuf, size, call, lastTile, pure, nops, labels, overlay>>

\* A thread begins to dereference the asset k.
Deref(t, k) ==
  /\ pc[t].at = "idle"
  /\ pc' = [pc EXCEPT ![t] = [at |-> "call_once", key |-> k]]
  /\ UNCHANGED <<once, cached, decodes, got>>
  /\ CanvasUntouched

\* call_once finds the Once complete and returns, or finds it incomplete and
\* takes it; while another thread runs the initialiser the caller blocks.
CallOnce(t) ==
  /\ pc[t].at = "call_once"
  /\ LET k == pc[t].key
     IN  IF once[k] = "complete"
         THEN /\ pc' = [pc EXCEPT ![t].at = "read"]
              /\ UNCHANGED <<once, decodes>>
         ELSE /\ MayInitialise(once[k])
              /\ once' = [once EXCEPT ![k] = "running"]
              /\ decodes' = [decodes EXCEPT ![k] = @ + 1]
              /\ pc' = [pc EXCEPT ![t].at = "init"]
  /\ UNCHANGED <<cached, got>>
  /\ CanvasUntouched

\* The initialiser has decoded the embedded bytes and starts to store the result.
StoreBegin(t) ==
  /\ pc[t].at = "init"
  /\ cached' = [cached EXCEPT ![pc[t].key] = Partial(pc[t].key)]
  /\ pc' = [pc EXCEPT ![t].at = "store"]
  /\ UNCHANGED <<once, decodes, got>>
  /\ CanvasUntouched

StoreEnd(t) ==
  /\ pc[t].at = "store"
  /\ cached' = [cached EXCEPT ![pc[t].key] = Decoded(pc[t].key)]
  /\ pc' = [pc EXCEPT ![t].at = "finish"]
  /\ UNCHANGED <<once, decodes, got>>
  /\ CanvasUntouched

\* call_once marks the Once complete and wakes the waiting threads.
Complete(t) ==
  /\ pc[t].at = "finish"
  /\ once' = [once EXCEPT ![pc[t].key] = "complete"]
  /\ pc' = [pc EXCEPT ![t].at = "read"]
  /\ UNCHANGED <<cached, decodes, got>>
  /\ CanvasUntouched

\* The dereference returns what the cell holds.
ReadCell(t) ==
  /\ pc[t].at = "read"
  /\ got' = [got EXCEPT ![t] = [key |-> pc[t].key, value |-> cached[pc[t].key]]]
  /\ pc' = [pc EXCEPT ![t] = [at |-> "idle", key |-> "none"]]
  /\ UNCHANGED <<once, cached, decodes>>
  /\ CanvasUntouched

InitAssets ==
  /\ Created(1, 1, 1)
  /\ NoCostMatrix
  /\ AssetsUntouched

NextAssets ==
  \/ \E t \in Threads, k \in AssetKeys : Deref(t, k)
  \/ \E t \in Threads : CallOnce(t)
  \/ \E t \in Threads : StoreBegin(t)
  \/ \E t \in Threads : StoreEnd(t)
  \/ \E t \in Threads : Complete(t)
  \/ \E t \in Threads : ReadCell(t)

SpecAssets == InitAssets /\ [][NextAssets]_vars

(***************************************************************************)
(* The colour function of the heat map on its own: the overlay of the      *)
(* first row of a room whose costs rise by one from position to position,  *)
(* at scale 1.                                                             *)
(***************************************************************************)
\* render.rs:12, screeps::constants::ROOM_SIZE
ROOM_SIZE == 50

RampBases == {0, 49, 98, 147, 196, 206}
RampBounds == {0, 1, 2, 5, 10, 41, 49, 100, 128, 200, 254, 255}
RampBMax == {0, 1, 41, 255}

Ramp(base) == [c \in (0 .. ROOM_SIZE - 1) \X {0} |-> base + c[1]]

InitBlue ==
  /\ Created(1, 1, 1)
  /\ NoCostMatrix
  /\ AssetsUntouched

BuildOverlay ==
  /\ call.op # "overlay"
  /\ \E base \in RampBases, v_min \in RampBounds, v_max \in RampBounds,
        b_max \in RampBMax, skip \in BOOLEAN :
       /\ v_min <= v_max
       /\ overlay' = get_cost_matrix_alpha_overlay(Ramp(base), ROOM_SIZE + 1, 2, 1,
                                                   v_min, v_max, b_max, 128, skip)
       /\ call' = [op |-> "overlay", cm |-> Ramp(base), v_min |-> v_min, v_max |-> v_max,
                   b_max |-> b_max, a |-> 128, skip |-> skip]
  /\ UNCHANGED <<imgbuf, size, lastTile, pure, nops, labels>>
  /\ UNCHANGED assetVars

NextBlue == BuildOverlay

SpecBlue == InitBlue /\ [][NextBlue]_vars

(***************************************************************************)
(* C1.  A draw_tile call on an in-range cell changes no pixel outside the  *)
(* scale x scale block of that cell, whose top-left corner is              *)
(* (col*scale + 1, row*scale + 1): every pixel outside the block has the   *)
(* value it had before the call, and the image keeps its dimensions.       *)
(***************************************************************************)
C1_TileWritesOnlyItsBlock ==
  [][(call'.op = "tile" /\ nops' = nops + 1) =>
       /\ imgbuf'.width = imgbuf.width
       /\ imgbuf'.height = imgbuf.height
       /\ \A p \in PixelsOf(imgbuf) :
            p \notin Block(call'.cell, size.scale) => At(imgbuf', p) = At(imgbuf, p)]_vars

\* A tile has been drawn on an image that was already painted outside the
\* tile's block, and the call did paint its own block.
C1_Witness ==
  /\ call.op = "tile"
  /\ nops >= 2
  /\ \E p \in PixelsOf(imgbuf) :
       p \notin Block(call.cell, size.scale) /\ At(imgbuf, p) # Black
  /\ \E p \in Block(call.cell, size.scale) : At(imgbuf, p) # Black

(***************************************************************************)
(* C2.  After any sequence of draw_tile calls with fully opaque tiles on a *)
(* freshly created image, the block of each cell equals the asset, resized *)
(* to the scale, of the last call that targeted the cell, and the block of *)
(* a cell never targeted is still opaque black.                            *)
(***************************************************************************)
C2_LastOpaqueTileWins ==
  pure =>
    \A c \in Cells(size) :
      \A p \in Block(c, size.scale) :
        At(imgbuf, p) =
          IF lastTile[c] = "none"
          THEN Black
          ELSE At(SizedTile(Asset(lastTile[c]), size.scale),
                  <<p[1] - (c[1] * size.scale + 1), p[2] - (c[2] * size.scale + 1)>>)

\* Two opaque tiles drawn one over the other on the same cell, with a
\* resize, the other cells left untouched.
C2_Witness ==
  /\ pure
  /\ nops = 2
  /\ size.scale # NativeSize
  /\ Cardinality({c \in Cells(size) : lastTile[c] # "none"}) = 1
  /\ Cardinality(Cells(size)) > 2

(***************************************************************************)
(* C3.  create(cols, rows, scale) returns an image of width exactly        *)
(* cols*scale + 1 and height exactly rows*scale + 1 in which every pixel   *)
(* is opaque black (0, 0, 0, 255).                                         *)
(***************************************************************************)
C3_CreateBlackCanvas ==
  call.op = "create" =>
    /\ imgbuf.width = size.cols * size.scale + 1
    /\ imgbuf.height = size.rows * size.scale + 1
    /\ DOMAIN imgbuf.px = 0 .. size.cols * size.scale
    /\ \A x \in DOMAIN imgbuf.px : DOMAIN imgbuf.px[x] = 0 .. size.rows * size.scale
    /\ \A p \in PixelsOf(imgbuf) : At(imgbuf, p) = <<0, 0, 0, 255>>

\* An image has been created anew, after draw calls on an earlier one.
C3_Witness ==
  /\ call.op = "create"
  /\ size = [cols |-> 2, rows |-> 1, scale |-> 3]
  /\ imgbuf.width = 7
  /\ imgbuf.height = 4
  /\ Cardinality(DOMAIN imgbuf.px) = 7
  /\ Cardinality(DOMAIN imgbuf.px[6]) = 4

(***************************************************************************)
(* C4.  In the heat-map overlay, for v_min < v_max and a fixed b_max, a    *)
(* cell of value v_min gets blue channel b_max, a cell of value v_max gets *)
(* blue channel 0, and of two cells with values v1 <= v2 in [v_min, v_max] *)
(* the one of value v2 gets a blue channel no larger than the other.       *)
(***************************************************************************)
\* The blue channel the overlay holds for the position c (scale 1).
OverlayBlue(c) == At(overlay, <<c[1] + 1, c[2] + 1>>)[3]

InRange(v) == call.v_min <= v /\ v <= call.v_max

C4_BlueFallsFromBMaxToZero ==
  (call.op = "overlay" /\ call.v_min < call.v_max) =>
    \A c \in DOMAIN call.cm :
      /\ call.cm[c] = call.v_min => OverlayBlue(c) = call.b_max
      /\ call.cm[c] = call.v_max => OverlayBlue(c) = 0
      /\ \A d \in DOMAIN call.cm :
           (InRange(call.cm[c]) /\ InRange(call.cm[d]) /\ call.cm[c] <= call.cm[d])
             => OverlayBlue(d) <= OverlayBlue(c)

\* An overlay holding v_min, v_max and values in between, with a blue
\* channel strictly between 0 and b_max somewhere.
C4_Witness ==
  /\ call.op = "overlay"
  /\ call.v_min < call.v_max
  /\ call.b_max = 255
  /\ \E c, d, e \in DOMAIN call.cm :
       /\ call.cm[c] = call.v_min /\ call.cm[e] = call.v_max
       /\ OverlayBlue(c) = 255 /\ OverlayBlue(e) = 0
       /\ 0 < OverlayBlue(d) /\ OverlayBlue(d) < 255

(***************************************************************************)
(* C5.  As claimed: under the Skip policy draw_cost_field leaves the       *)
(* canvas block of every cell whose value lies outside [v_min, v_max]      *)
(* unchanged (no pixel of the block is composited or written on by text).  *)
(***************************************************************************)
IsCostStep == call'.op = "cost" /\ call.op # "cost"

\* The labels a draw_cost_matrix step has added to the text layer.
NewLabels == {labels'[i] : i \in Len(labels) + 1 .. Len(labels')}

BlockTouchedBy(l, c, scale) ==
  InkTouches(l, c[1] * scale + 1, c[1] * scale + scale, c[2] * scale + 1, c[2] * scale + scale)

AnchoredAt(l, c, scale) == l.x = c[1] * scale + 2 /\ l.y = c[2] * scale + 2

OutOfRange(v, v_min, v_max) == v > v_max \/ v < v_min

C5_SkippedBlockUnchanged ==
  [][(IsCostStep /\ call'.skip) =>
       \A c \in DOMAIN call'.cm :
         OutOfRange(call'.cm[c], call'.v_min, call'.v_max) =>
           /\ \A p \in Block(c, size.scale) : At(imgbuf', p) = At(imgbuf, p)
           /\ \A l \in NewLabels : ~BlockTouchedBy(l, c, size.scale)]_vars

(***************************************************************************)
(* C5, amended.  Under the Skip policy a cell whose value lies outside     *)
(* [v_min, v_max] gets overlay alpha 0 on its whole block, compositing the *)
(* overlay leaves the pixels of its block as they were, and no label is    *)
(* drawn for it (text reaches its block only from the label of another     *)
(* cell); a non-zero cell inside the range gets overlay alpha `a` on its   *)
(* whole block and one label, that of its value.                           *)
(***************************************************************************)
C5_SkippedCellNoOverlayNoLabel ==
  [][(IsCostStep /\ call'.skip) =>
       \A c \in DOMAIN call'.cm :
         IF OutOfRange(call'.cm[c], call'.v_min, call'.v_max)
         THEN /\ \A p \in Block(c, size.scale) :
                   At(overlay', p)[4] = 0 /\ At(imgbuf', p) = At(imgbuf, p)
              /\ \A l \in NewLabels : ~AnchoredAt(l, c, size.scale)
         ELSE call'.cm[c] # 0 =>
                /\ \A p \in Block(c, size.scale) : At(overlay', p)[4] = call'.a
                /\ \E l \in NewLabels :
                     AnchoredAt(l, c, size.scale) /\ l.text = to_string(call'.cm[c])]_vars

\* The scenario of the specification: values 5 and 15 with range [0, 10],
\* Skip, alpha > 0: one label only, and the terrain under the skipped cell.
C5_Witness ==
  /\ call.op = "cost" /\ call.skip /\ call.a > 0
  /\ call.v_min = 0 /\ call.v_max = 10
  /\ call.cm[<<0, 0>>] = 5 /\ call.cm[<<1, 0>>] = 15
  /\ Len(labels) = 1
  /\ At(overlay, <<3, 3>>)[4] = call.a
  /\ At(overlay, <<DEFAULT_SCALE_FACTOR + 3, 3>>)[4] = 0
  /\ At(imgbuf, <<DEFAULT_SCALE_FACTOR + 3, 3>>) # Black

(***************************************************************************)
(* C6.  As claimed: under the Clamp policy a cell whose value exceeds      *)
(* v_max is rendered with the same overlay colour, overlay alpha and text  *)
(* label as a cell at the same position whose value is exactly v_max.      *)
(***************************************************************************)
\* The overlay and the labels of the last call, had position c held v_max.
OverlayAtVMax(c) ==
  get_cost_matrix_alpha_overlay([call.cm EXCEPT ![c] = call.v_max], imgbuf.width,
                                imgbuf.height, size.scale, call.v_min, call.v_max,
                                call.b_max, call.a, call.skip)

LabelsAtVMax(c) ==
  draw_cost_labels(<<>>, PositionsInOrder(DOMAIN call.cm), [call.cm EXCEPT ![c] = call.v_max],
                   call.v_min, call.v_max, size.scale, call.skip)

LabelsOf(lbls, c) == {lbls[i] : i \in {j \in 1 .. Len(lbls) : AnchoredAt(lbls[j], c, size.scale)}}

C6_ClampedLooksLikeVMax ==
  (call.op = "cost" /\ ~call.skip) =>
    \A c \in DOMAIN call.cm :
      call.cm[c] > call.v_max =>
        LET atVMax == OverlayAtVMax(c)
        IN  /\ \A p \in Block(c, size.scale) : At(overlay, p) = At(atVMax, p)
            /\ LabelsOf(labels, c) = LabelsOf(LabelsAtVMax(c), c)

(***************************************************************************)
(* C6, amended.  Under the Clamp policy a cell whose value exceeds v_max   *)
(* gets the overlay colour of a cell at the same position whose value is   *)
(* exactly v_max, and its overlay alpha too unless v_max = 0 (a cell of    *)
(* value 0 is transparent); its label shows the cell's own value, not      *)
(* v_max, at 3/4 of the scale when that value has two or more digits.      *)
(***************************************************************************)
RECURSIVE DecimalValue(_)
DecimalValue(digits) ==
  IF digits = <<>> THEN 0
  ELSE 10 * DecimalValue(SubSeq(digits, 1, Len(digits) - 1)) + digits[Len(digits)]

C6_ClampedColourOwnLabel ==
  (call.op = "cost" /\ ~call.skip) =>
    \A c \in DOMAIN call.cm :
      call.cm[c] > call.v_max =>
        /\ LET atVMax == OverlayAtVMax(c)
           IN  \A p \in Block(c, size.scale) :
                 /\ \A ch \in 1 .. 3 : At(overlay, p)[ch] = At(atVMax, p)[ch]
                 /\ call.v_max # 0 => At(overlay, p)[4] = At(atVMax, p)[4]
        /\ Cardinality(LabelsOf(labels, c)) = 1
        /\ \A l \in LabelsOf(labels, c) :
             /\ DecimalValue(l.text) = call.cm[c]
             /\ l.scale = IF call.cm[c] >= 10
                          THEN <<(3 * size.scale) \div 4, 1>>
                          ELSE <<size.scale, 1>>

\* Clamp, range [0, 10], a cell of value 15 beside a cell of value 5: the
\* first has the blue channel of v_max, 0, the second a larger one; the
\* labels are "15" and "5".
C6_Witness ==
  /\ call.op = "cost" /\ ~call.skip /\ call.a > 0
  /\ call.v_min = 0 /\ call.v_max = 10
  /\ call.cm[<<0, 0>>] = 15 /\ call.cm[<<1, 0>>] = 5
  /\ At(overlay, <<3, 3>>)[3] = 0
  /\ At(overlay, <<DEFAULT_SCALE_FACTOR + 3, 3>>)[3] > 0
  /\ labels[1].text = <<1, 5>> /\ labels[2].text = <<5>>

(***************************************************************************)
(* C7.  As claimed: draw_cost_field called with v_min = v_max is rejected: *)
(* it paints no overlay and no label and leaves the canvas unchanged.      *)
(***************************************************************************)
C7_DegenerateRangeRejected ==
  [][(IsCostStep /\ call'.v_min = call'.v_max) =>
       /\ imgbuf' = imgbuf
       /\ labels' = labels]_vars

(***************************************************************************)
(* C8.  For every asset, under any interleaving of dereferences by several *)
(* threads, the initialiser is started at most once, every dereference     *)
(* returns the same fully initialised value, and once the asset is         *)
(* initialised no step decodes it again or changes the stored value.       *)
(***************************************************************************)
C8_SingleInitialisation ==
  [][/\ \A k \in AssetKeys : decodes'[k] <= 1
     /\ \A t \in Threads :
          got'[t].key # "none" => got'[t].value = [asset |-> got'[t].key, complete |-> TRUE]
     /\ \A k \in AssetKeys :
          once[k] = "complete" =>
            /\ once'[k] = "complete"
            /\ decodes'[k] = decodes[k]
            /\ cached'[k] = cached[k]]_vars

\* Two threads have obtained the value of an asset decoded once, while a
\* third is dereferencing it.
C8_Witness ==
  \E k \in AssetKeys : \E t1, t2, t3 \in Threads :
    /\ t1 # t2 /\ t3 \notin {t1, t2}
    /\ got[t1].key = k
    /\ got[t2] = got[t1]
    /\ decodes[k] = 1
    /\ pc[t3] = [at |-> "call_once", key |-> k]

(***************************************************************************)
(* C9.  For every text, the width of the text drawn by                     *)
(* draw_centered_text_number_xy, measured at the font scale the call       *)
(* finally draws with, is at most the width of the padded area of the cell *)
(* (the cell size less a border of 2 pixels on each side: 46 pixels).      *)
(***************************************************************************)
\* The label the last call drew.
LastLabel == labels[Len(labels)]

PaddedWidth == DEFAULT_SCALE_FACTOR - 2 * 2

Abs(n) == IF n < 0 THEN -n ELSE n

C10_CenteredInPaddedArea ==
  call.op = "centered" =>
    LET w == text_size(LastLabel.scale, call.text)[1]
        h == text_size(LastLabel.scale, call.text)[2]
        left == LastLabel.x - (call.cell[1] * DEFAULT_SCALE_FACTOR + 2)
        right == (call.cell[1] * DEFAULT_SCALE_FACTOR + DEFAULT_SCALE_FACTOR - 2) - (LastLabel.x + w)
        top == LastLabel.y - (call.cell[2] * DEFAULT_SCALE_FACTOR + 2)
        bottom == (call.cell[2] * DEFAULT_SCALE_FACTOR + DEFAULT_SCALE_FACTOR - 2) - (LastLabel.y + h)
    IN  /\ left >= 0 /\ right >= 0 /\ top >= 0 /\ bottom >= 0
        /\ Abs(left - right) <= 1
        /\ Abs(top - bottom) <= 1

(***************************************************************************)
(* C11.  Two draw_tile calls on two distinct in-range cells commute: on    *)
(* any canvas, making them in either order gives the same image, pixel for *)
(* pixel.                                                                  *)
(***************************************************************************)
C11_TilesOnDistinctCellsCommute ==
  [][(call'.op = "pair" /\ call.op # "pair") =>
       imgbuf' = draw_tile_img_xy(
                   draw_tile_img_xy(imgbuf, call'.second.cell[1], call'.second.cell[2],
                                    Asset(call'.second.tile), size.scale),
                   call'.first.cell[1], call'.first.cell[2],
                   Asset(call'.first.tile), size.scale)]_vars

\* A resized, partly transparent resource tile and a terrain tile drawn on
\* two cells of a canvas that had tiles and the grid on it; both blocks differ
\* from the black of a fresh canvas.
C11_Witness ==
  /\ call.op = "pair"
  /\ call.bg = "tiles and grid"
  /\ call.first.tile = "Unknown" /\ call.second.tile = "Swamp"
  /\ size.scale # NativeSize
  /\ \E p \in Block(call.first.cell, size.scale) : At(imgbuf, p) # Black
  /\ \E p \in Block(call.second.cell, size.scale) : At(imgbuf, p) # Black

(***************************************************************************)
(* C12.  draw_grid is idempotent: on any canvas, calling it twice gives    *)
(* exactly the pixels of calling it once, because a call overwrites every  *)
(* pixel whose x or y coordinate is a multiple of the scale with           *)
(* (255, 255, 255, 128) and leaves every other pixel unchanged.            *)
(***************************************************************************)
IsGridStep == call'.op = "grid" /\ nops' = nops + 1

C12_GridIdempotent ==
  [][IsGridStep =>
       /\ \A p \in PixelsOf(imgbuf) :
            At(imgbuf', p) = IF (p[1] % size.scale = 0) \/ (p[2] % size.scale = 0)
                             THEN <<255, 255, 255, 128>>
                             ELSE At(imgbuf, p)
       /\ draw_grid_with_scale_factor(imgbuf', size.scale) = imgbuf'
       /\ call.op = "grid" => imgbuf' = imgbuf]_vars

\* The grid drawn twice in a row on a fresh canvas, on which it leaves
\* pixels between its lines.
C12_Witness ==
  /\ call.op = "grid"
  /\ nops = 2
  /\ \A c \in DOMAIN lastTile : lastTile[c] = "none"
  /\ size.scale > 1
  /\ At(imgbuf, <<0, 0>>) = <<255, 255, 255, 128>>
  /\ At(imgbuf, <<1, 1>>) = Black

(***************************************************************************)
(* C13.  In draw_cost_matrix the overlay pass and the label pass select    *)
(* the same cells: for alpha > 0, the block of a cell has non-zero overlay *)
(* alpha if and only if a label is drawn for the cell, and both hold       *)
(* exactly when its value is not 0 and (the policy is not Skip or          *)
(* v_min <= value <= v_max); a cell of value 0 gets overlay alpha 0 and no *)
(* label under either policy.                                              *)
(***************************************************************************)
Selected(c) ==
  /\ call.cm[c] # 0
  /\ ~call.skip \/ (call.v_min <= call.cm[c] /\ call.cm[c] <= call.v_max)

C13_OverlayAndLabelsSelectSameCells ==
  (call.op = "cost" /\ call.a > 0) =>
    \A c \in DOMAIN call.cm :
      IF Selected(c)
      THEN /\ \A p \in Block(c, size.scale) : At(overlay, p)[4] # 0
           /\ Cardinality({i \in 1 .. Len(labels) : AnchoredAt(labels[i], c, size.scale)}) = 1
      ELSE /\ \A p \in Block(c, size.scale) : At(overlay, p)[4] = 0
           /\ \A i \in 1 .. Len(labels) : ~AnchoredAt(labels[i], c, size.scale)

\* Skip, range [2, 200]: a cell of value 0 beside a cell of value 5, the
\* first without overlay and label, the second with both.
C13_Witness ==
  /\ call.op = "cost" /\ call.skip /\ call.a > 0
  /\ call.v_min = 2 /\ call.v_max = 200
  /\ call.cm[<<0, 0>>] = 0 /\ call.cm[<<1, 0>>] = 5
  /\ At(overlay, <<1, 1>>)[4] = 0
  /\ At(overlay, <<DEFAULT_SCALE_FACTOR + 1, 1>>)[4] = call.a
  /\ Len(labels) = 1
  /\ AnchoredAt(labels[1], <<1, 0>>, size.scale)

====
